---- MODULE Spec2Model ----
(***************************************************************************)
(* Model of scripts/enrich_with_doi.py: the DOI enrichment loop (main),    *)
(* the tiered DOI recovery (recover_doi) and the text utilities            *)
(* (strip_xml_tags, norm_title).                                           *)
(*                                                                         *)
(* Text is a sequence of one-character strings, so that the regular        *)
(* expressions of the source are computed character by character.          *)
(***************************************************************************)
EXTENDS Integers, Sequences, FiniteSets, TLC

\* ------------------------------------------------------------------ bounds

\* Longest input list of the enrichment loop.
MaxItems == 2
\* Most candidates in one answer of the title search.
MaxCands == 2
\* Most fragments concatenated into one sanitizer input.
MaxFrags == 4

\* ------------------------------------------------------- character classes

UpperSeq == <<"A","B","C","D","E","F","G","H","I","J","K","L","M",
              "N","O","P","Q","R","S","T","U","V","W","X","Y","Z">>
LowerSeq == <<"a","b","c","d","e","f","g","h","i","j","k","l","m",
              "n","o","p","q","r","s","t","u","v","w","x","y","z">>
DigitSeq == <<"0","1","2","3","4","5","6","7","8","9">>

Range(s) == {s[i] : i \in 1..Len(s)}

\* \w of Python's re on the characters used here
IsWord(c) == c \in Range(UpperSeq) \cup Range(LowerSeq) \cup Range(DigitSeq) \cup {"_"}

\* \s of Python's re, and what str.strip() removes
IsSpace(c) == c \in {" ", "\t", "\n"}

\* str.lower() on one character
LowerChar(c) ==
    IF c \in Range(UpperSeq)
    THEN LowerSeq[CHOOSE i \in 1..Len(UpperSeq) : UpperSeq[i] = c]
    ELSE c

\* str.upper() on one character
UpperChar(c) ==
    IF c \in Range(LowerSeq)
    THEN UpperSeq[CHOOSE i \in 1..Len(LowerSeq) : LowerSeq[i] = c]
    ELSE c

Lower(s) == [i \in 1..Len(s) |-> LowerChar(s[i])]
Upper(s) == [i \in 1..Len(s) |-> UpperChar(s[i])]

\* ----------------------------------------------------------- str helpers

RECURSIVE LStrip(_)
LStrip(s) == IF s # <<>> /\ IsSpace(s[1]) THEN LStrip(Tail(s)) ELSE s

RECURSIVE RStrip(_)
RStrip(s) ==
    IF s # <<>> /\ IsSpace(s[Len(s)]) THEN RStrip(SubSeq(s, 1, Len(s) - 1)) ELSE s

\* str.strip()
Strip(s) == RStrip(LStrip(s))

\* TagEnd for the greedy pattern <.+>: the last '>' after i
TagEndGreedy(s, i) ==
    IF s[i] # "<" \/ ~(\E j \in (i + 2)..Len(s) : s[j] = ">")
    THEN 0
    ELSE CHOOSE j \in (i + 2)..Len(s) :
             s[j] = ">" /\ \A q \in (j + 1)..Len(s) : s[q] # ">"

\* The index of the '>' closing a match of <[^>]+> that starts at i, or 0 when
\* the pattern does not match at i: the first '>' after i, with at least one
\* character in between.
TagEnd(s, i) ==
    IF s[i] # "<" \/ ~(\E j \in (i + 1)..Len(s) : s[j] = ">")
    THEN 0
    ELSE LET j == CHOOSE j \in (i + 1)..Len(s) :
                      /\ s[j] = ">"
                      /\ \A q \in (i + 1)..(j - 1) : s[q] # ">"
         IN IF j >= i + 2 THEN j ELSE 0

\* re.sub(r"<[^>]+>", rep, s) scanning from position i
RECURSIVE SubTagsFrom(_, _, _)
SubTagsFrom(s, i, rep) ==
    IF i > Len(s) THEN <<>>
    ELSE LET e == TagEnd(s, i)
         IN IF e > 0 THEN rep \o SubTagsFrom(s, e + 1, rep)
                     ELSE <<s[i]>> \o SubTagsFrom(s, i + 1, rep)

SubTags(s, rep) == SubTagsFrom(s, 1, rep)

\* \b between positions q and q+1 of s (q = 0: the start, q = Len(s): the end)
IsBoundary(s, q) ==
    LET left  == q >= 1 /\ IsWord(s[q])
        right == q + 1 <= Len(s) /\ IsWord(s[q + 1])
    IN left # right

\* [A-Za-z0-9_-]
IsJatsNameChar(c) == IsWord(c) \/ c = "-"

\* The last index of a match of \b[jJ]ats:[A-Za-z0-9_-]+\b that starts at i, or
\* 0: the name is taken greedily and given back until a word boundary follows.
JatsEnd(s, i) ==
    IF /\ i + 5 <= Len(s)
       /\ s[i] \in {"j", "J"}
       /\ SubSeq(s, i + 1, i + 4) = <<"a", "t", "s", ":">>
       /\ IsBoundary(s, i - 1)
    THEN LET ends == {e \in (i + 5)..Len(s) :
                         /\ \A q \in (i + 5)..e : IsJatsNameChar(s[q])
                         /\ IsBoundary(s, e)}
         IN IF ends = {} THEN 0 ELSE CHOOSE e \in ends : \A f \in ends : f <= e
    ELSE 0

\* re.sub(r"\b[jJ]ats:[A-Za-z0-9_-]+\b", " ", s) scanning from position i
RECURSIVE SubJatsFrom(_, _)
SubJatsFrom(s, i) ==
    IF i > Len(s) THEN <<>>
    ELSE LET e == JatsEnd(s, i)
         IN IF e > 0 THEN <<" ">> \o SubJatsFrom(s, e + 1)
                     ELSE <<s[i]>> \o SubJatsFrom(s, i + 1)

SubJats(s) == SubJatsFrom(s, 1)

\* re.sub(r"\s+", " ", s)
RECURSIVE CollapseWs(_)
CollapseWs(s) ==
    IF s = <<>> THEN <<>>
    ELSE IF IsSpace(s[1])
         THEN <<" ">> \o CollapseWs(LStrip(s))
         ELSE <<s[1]>> \o CollapseWs(Tail(s))

\* strip_xml_tags
strip_xml_tags(text) ==
    IF text = <<>> THEN <<>>
    ELSE Strip(CollapseWs(SubJats(SubTags(text, <<" ">>))))

\* re.sub(r"[^\w\s]", "", s)
RECURSIVE DropPunct(_)
DropPunct(s) ==
    IF s = <<>> THEN <<>>
    ELSE IF IsWord(s[1]) \/ IsSpace(s[1])
         THEN <<s[1]>> \o DropPunct(Tail(s))
         ELSE DropPunct(Tail(s))

\* s.replace("-", " ")
DashToSpace(s) == [i \in 1..Len(s) |-> IF s[i] = "-" THEN " " ELSE s[i]]

\* norm_title
norm_title(s) == Strip(CollapseWs(DropPunct(DashToSpace(SubTags(Lower(s), <<>>)))))

\* ---------------------------------------------------------- program data

\* "DOI not found", the value of doi_display when there is no DOI
DOI_NOT_FOUND == <<"D","O","I"," ","n","o","t"," ","f","o","u","n","d">>

\* "https://doi.org/", the prefix of the fallback link
DoiUrlPrefix == <<"h","t","t","p","s",":","/","/","d","o","i",".","o","r","g","/">>

\* "YES", the only oracle answer that counts as a match
YES == <<"Y","E","S">>

\* An item of data/relevant_items.json. An absent key, None and "" are all
\* falsy in the source and are all the empty sequence here.
Item(title, link, journal, authors, doi, abstract, pubDate, allow) ==
    [title |-> title, link |-> link, journal |-> journal, authors |-> authors,
     doi |-> doi, abstract |-> abstract, pubDate |-> pubDate,
     allow_doi_lookup |-> allow, doi_display |-> <<>>]

\* The records the input list is drawn from.
ItemPool ==
    { \* every field present, DOI padded with whitespace
      Item(<<"A","-","b">>, <<"u">>, <<"J">>, << <<"S">> >>, <<" ","x">>,
           <<"<","i",">","t">>, <<"D">>, TRUE),
      \* no DOI, recovery allowed, gaps everywhere
      Item(<<"A","-","b">>, <<>>, <<>>, << <<"S">> >>, <<>>, <<>>, <<>>, TRUE),
      \* no DOI, recovery not allowed
      Item(<<"c">>, <<"u">>, <<>>, <<>>, <<>>, <<"<","i",">","t">>, <<>>, FALSE),
      \* DOI present, gaps to fill
      Item(<<"c">>, <<>>, <<>>, <<>>, <<"x">>, <<>>, <<"D">>, FALSE) }

RECURSIVE SeqsUpTo(_, _)
SeqsUpTo(S, n) ==
    IF n = 0 THEN {<<>>}
    ELSE LET shorter == SeqsUpTo(S, n - 1)
         IN shorter \cup {Append(q, x) : q \in shorter, x \in S}

\* The input lists: one to MaxItems records.
ItemLists == SeqsUpTo(ItemPool, MaxItems) \ {<<>>}

\* One item of the title search's answer: "title" is a list (absent: empty),
\* "DOI" a text (absent: empty), "author" a list of given/family pairs.
Cand(title, d, author) == [title |-> title, DOI |-> d, author |-> author]

Name(given, family) == [given |-> given, family |-> family]

CandPool ==
    { \* the same title up to case and punctuation
      Cand(<< <<"a"," ","b",".">> >>, <<"y","1">>, <<>>),
      Cand(<< <<"A"," ","B">> >>, <<"y","2">>, <<>>),
      \* a longer title containing the record's, with a shared author
      Cand(<< <<"a"," ","b"," ","c">> >>, <<"y","3">>, <<Name(<<>>, <<"s">>)>>),
      \* a longer title containing the record's, no shared author
      Cand(<< <<"a"," ","b"," ","c">> >>, <<"y","4">>, <<Name(<<"g">>, <<"f">>)>>) }

\* crossref_search(title, rows=5): the lists the model draws its answer from;
\* the empty list is also what a failed search returns.
CandLists == SeqsUpTo(CandPool, MaxCands)

\* resp.output_text of the oracle
OracleTexts == {YES, <<" ","y","e","s","\n">>, <<"N","O">>, <<"Y","E","S",".">>, <<>>}

\* The "message" of a registry answer. "issued" is the date-parts list: empty
\* when absent, else one list of numbers.
Message(ct, author, abstract, url, issued) ==
    [container_title |-> ct, author |-> author, abstract |-> abstract,
     URL |-> url, issued |-> issued]

IssuedPool ==
    { <<>>, << <<2020>> >>, << <<2020, 2>> >>, << <<2020, 2, 3>> >>,
      << <<2020, 2, 30>> >>, << <<0>> >> }

MessagePool ==
    { Message(<< <<"K">> >>, <<Name(<<"G">>, <<"F">>)>>,
              <<"<","j","a","t","s",":","p",">","r","<","/","j","a","t","s",":","p",">">>,
              <<"v">>, i) : i \in IssuedPool }
    \cup
    \* an answer with none of the fields the merge reads
    { Message(<<>>, <<>>, <<>>, <<>>, <<>>) }

\* crossref_lookup_doi: None (the empty sequence) or one message
LookupAnswers == {<<>>} \cup {<<m>> : m \in MessagePool}

\* ------------------------------------------------------------ matching

\* (cand.get("title") or [""])[0]
CandTitle(cand) == IF cand.title = <<>> THEN <<>> ELSE cand.title[1]

\* " ".join(filter(None, [a.get("given"), a.get("family")]))
JoinName(a) ==
    IF a.given # <<>> /\ a.family # <<>> THEN a.given \o <<" ">> \o a.family
    ELSE IF a.given # <<>> THEN a.given
    ELSE a.family

JoinNames(authors) == [i \in 1..Len(authors) |-> JoinName(authors[i])]

\* author_overlap
author_overlap(a, b) ==
    LET a_set == {Lower(a[i]) : i \in {j \in 1..Len(a) : a[j] # <<>>}}
        b_set == {Lower(b[i]) : i \in {j \in 1..Len(b) : b[j] # <<>>}}
    IN a_set \cap b_set # {}

\* Python's "x in y" on strings
Contains(x, y) ==
    \E i \in 0..(Len(y) - Len(x)) : SubSeq(y, i + 1, i + Len(x)) = x

\* TitleEquals with the candidate's title lowercased but not normalized
TitleEqualsUnnormalized(cand, wanted) == Lower(CandTitle(cand)) = wanted

\* recover_doi, first loop: the test on one candidate
TitleEquals(cand, wanted) == norm_title(CandTitle(cand)) = wanted

\* ContainsWithAuthors without the test that an author is shared
ContainsWithoutAuthors(cand, wanted, rss_authors) ==
    \/ Contains(wanted, norm_title(CandTitle(cand)))
    \/ Contains(norm_title(CandTitle(cand)), wanted)

\* recover_doi, second loop: the test on one candidate
ContainsWithAuthors(cand, wanted, rss_authors) ==
    /\ \/ Contains(wanted, norm_title(CandTitle(cand)))
       \/ Contains(norm_title(CandTitle(cand)), wanted)
    /\ author_overlap(rss_authors, JoinNames(cand.author))

\* The least index of a set of indexes, or 0: the candidate a loop stops at.
FirstIndex(S) == IF S = {} THEN 0 ELSE CHOOSE i \in S : \A j \in S : i <= j

\* recover_doi, its two loops that make no call: the index of the candidate
\* whose DOI is returned and the tier that found it, or index 0.
MatchWithoutOracle(item, cands) ==
    LET wanted == norm_title(item.title)
        a == FirstIndex({i \in 1..Len(cands) : TitleEquals(cands[i], wanted)})
        b == FirstIndex({i \in 1..Len(cands) :
                            ContainsWithAuthors(cands[i], wanted, item.authors)})
    IN IF a > 0 THEN [index |-> a, tier |-> "A"]
       ELSE IF b > 0 THEN [index |-> b, tier |-> "B"]
       ELSE [index |-> 0, tier |-> "none"]

\* openai_same_article: the answer read from the oracle's text
SaysYes(text) == Upper(Strip(text)) = YES

\* NeedsRecovery without the test that the record has no DOI
NeedsRecoveryIgnoringDoi(d, item) == item.allow_doi_lookup

\* main: whether recovery is attempted for the record
NeedsRecovery(d, item) == d = <<>> /\ item.allow_doi_lookup

\* ---------------------------------------------------------------- dates

IsLeap(y) == y % 4 = 0 /\ (y % 100 # 0 \/ y % 400 = 0)

DaysInMonth(y, m) ==
    IF m = 2 THEN (IF IsLeap(y) THEN 29 ELSE 28)
    ELSE IF m \in {4, 6, 9, 11} THEN 30 ELSE 31

\* Whether datetime(y, m, d) is constructed; otherwise it raises ValueError.
ValidDate(y, m, d) ==
    /\ y >= 1 /\ y <= 9999
    /\ m >= 1 /\ m <= 12
    /\ d >= 1 /\ d <= DaysInMonth(y, m)

RECURSIVE DaysBeforeMonth(_, _)
DaysBeforeMonth(y, m) ==
    IF m = 1 THEN 0 ELSE DaysBeforeMonth(y, m - 1) + DaysInMonth(y, m - 1)

\* date.toordinal(): 0001-01-01 is day 1
Ordinal(y, m, d) ==
    LET p == y - 1
    IN p * 365 + p \div 4 - p \div 100 + p \div 400 + DaysBeforeMonth(y, m) + d

DayNames == << <<"M","o","n">>, <<"T","u","e">>, <<"W","e","d">>, <<"T","h","u">>,
               <<"F","r","i">>, <<"S","a","t">>, <<"S","u","n">> >>

MonthNames == << <<"J","a","n">>, <<"F","e","b">>, <<"M","a","r">>, <<"A","p","r">>,
                 <<"M","a","y">>, <<"J","u","n">>, <<"J","u","l">>, <<"A","u","g">>,
                 <<"S","e","p">>, <<"O","c","t">>, <<"N","o","v">>, <<"D","e","c">> >>

Digit(n) == DigitSeq[n + 1]

Pad2(n) == <<Digit(n \div 10), Digit(n % 10)>>

Pad4(n) == Pad2(n \div 100) \o Pad2(n % 100)

\* format_datetime(datetime(y, m, d, tzinfo=timezone.utc)),
\* e.g. "Wed, 01 Jan 2020 00:00:00 +0000"
format_datetime(y, m, d) ==
    DayNames[((Ordinal(y, m, d) + 6) % 7) + 1] \o <<",", " ">> \o Pad2(d) \o <<" ">>
    \o MonthNames[m] \o <<" ">> \o Pad4(y)
    \o <<" ","0","0",":","0","0",":","0","0"," ","+","0","0","0","0">>

\* ---------------------------------------------------------------- merge

\* main, the date of the registry answer: pub[0] + [1, 1] unpacked into
\* y, m, d and formatted. The unpacking raises ValueError unless the list has
\* three elements, and datetime raises ValueError on a date that does not exist.
DateFromParts(parts) ==
    LET padded == parts \o <<1, 1>>
    IN IF Len(padded) # 3 THEN [raised |-> TRUE, text |-> <<>>]
       ELSE IF ~ValidDate(padded[1], padded[2], padded[3])
            THEN [raised |-> TRUE, text |-> <<>>]
            ELSE [raised |-> FALSE,
                  text |-> format_datetime(padded[1], padded[2], padded[3])]

\* main, "if not it.get('journal') and cr.get('container-title')"
MergeJournal(rec, msg) ==
    IF rec.journal = <<>> /\ msg.container_title # <<>>
    THEN msg.container_title[1] ELSE rec.journal

\* main, "if not it.get('authors') and cr.get('author')"
MergeAuthors(rec, msg) ==
    IF rec.authors = <<>> /\ msg.author # <<>>
    THEN JoinNames(msg.author) ELSE rec.authors

\* main, "if not it.get('abstract') and cr.get('abstract')"
MergeAbstract(rec, msg) ==
    IF rec.abstract = <<>> /\ msg.abstract # <<>>
    THEN strip_xml_tags(msg.abstract) ELSE rec.abstract

\* MergeLink with the fallback built from the record's doi field instead of
\* the local doi
MergeLinkFromField(rec, msg, d) ==
    IF rec.link = <<>>
    THEN (IF msg.URL # <<>> THEN msg.URL ELSE DoiUrlPrefix \o rec.doi)
    ELSE rec.link

\* main, "if not it.get('link')"
MergeLink(rec, msg, d) ==
    IF rec.link = <<>>
    THEN (IF msg.URL # <<>> THEN msg.URL ELSE DoiUrlPrefix \o d)
    ELSE rec.link

\* main, "pub = cr.get('issued', {}).get('date-parts'); if pub: ..."
MergePubDate(rec, msg) ==
    IF msg.issued # <<>>
    THEN DateFromParts(msg.issued[1])
    ELSE [raised |-> FALSE, text |-> rec.pubDate]

\* main, the body of "if cr:": the record after the assignments that ran and
\* whether the date raised.
Merge(rec, msg, d) ==
    LET date == MergePubDate(rec, msg)
    IN [raised |-> date.raised,
        rec |-> [rec EXCEPT !.journal = MergeJournal(rec, msg),
                            !.authors = MergeAuthors(rec, msg),
                            !.abstract = MergeAbstract(rec, msg),
                            !.link = MergeLink(rec, msg, d),
                            !.pubDate = IF date.raised THEN rec.pubDate ELSE date.text]]

\* SetDoiDisplay that also stores the DOI in the record's doi field
SetDoiDisplayAndDoi(rec, d) ==
    [rec EXCEPT !.doi_display = IF d # <<>> THEN d ELSE DOI_NOT_FOUND, !.doi = d]

\* main, "doi_display = doi if doi else DOI_NOT_FOUND; it['doi_display'] = doi_display"
SetDoiDisplay(rec, d) ==
    [rec EXCEPT !.doi_display = IF d # <<>> THEN d ELSE DOI_NOT_FOUND]

\* main, "if it.get('abstract'): it['abstract'] = strip_xml_tags(it['abstract'])"
SanitizeAbstract(rec) ==
    IF rec.abstract # <<>>
    THEN [rec EXCEPT !.abstract = strip_xml_tags(rec.abstract)]
    ELSE rec

\* ------------------------------------------------------- sanitizer inputs

\* The pieces sanitizer inputs are built from.
FragPool == { <<"<">>, <<">">>, <<" ">>, <<"j","a","t","s",":">>, <<"p">>, <<"-">>, <<".">> }

RECURSIVE Concat(_)
Concat(ss) == IF ss = <<>> THEN <<>> ELSE Head(ss) \o Concat(Tail(ss))

\* "<jats:p>Background: Tumor growth.</jats:p>"
ExampleAbstract ==
    <<"<","j","a","t","s",":","p",">","B","a","c","k","g","r","o","u","n","d",":"," ","T","u","m","o","r"," ","g","r","o","w","t","h",".","<","/","j","a","t","s",":","p",">">>

\* "Background: Tumor growth."
ExampleSanitized ==
    <<"B","a","c","k","g","r","o","u","n","d",":"," ","T","u","m","o","r"," ","g","r","o","w","t","h",".">>

SanInputs == {Concat(fs) : fs \in SeqsUpTo(FragPool, MaxFrags)} \cup {ExampleAbstract}

\* ---------------------------------------------------------------- state

VARIABLES
    items,        \* main: the list read from INPUT_JSON
    idx,          \* main: the position of the for loop in items
    pc,           \* main: where the loop stands
    it,           \* main: the working copy of the current record
    doi,          \* main: the local doi (None and "" are the empty text)
    candidates,   \* recover_doi: the answer of the title search
    k,            \* recover_doi: the position of the oracle loop
    cr,           \* main: the registry answer, empty for None
    enriched,     \* main: the output list
    feed,         \* the records handed to build_rss
    exc,          \* the exception that ended the run, if any
    sinceSleep,   \* history: external calls made since the last time.sleep
    searchCalls,  \* history: title searches made for the current record
    oracleCalls,  \* history: oracle calls made for the current record
    lookups,      \* history: the DOIs the registry was asked for, current record
    answer,       \* history: the text of the oracle's latest answer in recover_doi
    returned,     \* history: the index of the candidate recover_doi returned, or 0
    sanIn,        \* strip_xml_tags: its argument
    sanOut,       \* strip_xml_tags: its result
    sanPc         \* strip_xml_tags: called or not

vars == <<items, idx, pc, it, doi, candidates, k, cr, enriched, feed, exc,
          sinceSleep, searchCalls, oracleCalls, lookups, answer, returned,
          sanIn, sanOut, sanPc>>

loopVars == <<items, idx, pc, it, doi, candidates, k, cr, enriched, feed, exc,
              sinceSleep, searchCalls, oracleCalls, lookups, answer, returned>>

sanVars == <<sanIn, sanOut, sanPc>>

EmptyItem == Item(<<>>, <<>>, <<>>, <<>>, <<>>, <<>>, <<>>, FALSE)

LoopIdle ==
    /\ idx = 1 /\ it = EmptyItem /\ doi = <<>> /\ candidates = <<>> /\ k = 0
    /\ cr = <<>> /\ enriched = <<>> /\ feed = <<>> /\ exc = "none"
    /\ sinceSleep = 0 /\ searchCalls = 0 /\ oracleCalls = 0 /\ lookups = <<>>
    /\ answer = <<>> /\ returned = 0

\* main before its loop, for every input list
Init ==
    /\ items \in ItemLists
    /\ pc = "loop"
    /\ LoopIdle
    /\ sanIn = <<>> /\ sanOut = <<>> /\ sanPc = "off"

\* ---------------------------------------------------------------- main

\* main, lines 246-250: the next record is copied and its DOI trimmed
StartRecord ==
    /\ pc = "loop" /\ idx <= Len(items)
    /\ it' = items[idx]
    /\ doi' = Strip(items[idx].doi)
    /\ pc' = IF NeedsRecovery(Strip(items[idx].doi), items[idx]) THEN "search" ELSE "lookup"
    /\ searchCalls' = 0 /\ oracleCalls' = 0 /\ lookups' = <<>>
    /\ UNCHANGED <<items, idx, candidates, k, cr, enriched, feed, exc, sinceSleep,
                   answer, returned, sanVars>>

\* recover_doi, lines 128-149: the title search and the two loops without calls
CrossrefSearch ==
    /\ pc = "search"
    /\ \E cands \in CandLists :
         LET hit == MatchWithoutOracle(it, cands)
         IN /\ candidates' = cands
            /\ returned' = hit.index
            /\ IF hit.index > 0
               THEN doi' = cands[hit.index].DOI /\ k' = 0 /\ pc' = "recovered"
               ELSE IF cands = <<>>
                    THEN doi' = <<>> /\ k' = 0 /\ pc' = "recovered"
                    ELSE doi' = doi /\ k' = 1 /\ pc' = "oracle"
    /\ searchCalls' = searchCalls + 1
    /\ sinceSleep' = sinceSleep + 1
    /\ UNCHANGED <<items, idx, it, cr, enriched, feed, exc, oracleCalls, lookups,
                   answer, sanVars>>

\* recover_doi, lines 151-167: one oracle call answers
OracleAnswers ==
    /\ pc = "oracle"
    /\ \E text \in OracleTexts :
         /\ answer' = text
         /\ returned' = IF SaysYes(text) THEN k ELSE 0
         /\ IF SaysYes(text)
            THEN doi' = candidates[k].DOI /\ k' = k /\ pc' = "recovered"
            ELSE IF k < Len(candidates)
                 THEN doi' = doi /\ k' = k + 1 /\ pc' = "oracle"
                 ELSE doi' = <<>> /\ k' = k /\ pc' = "recovered"
    /\ oracleCalls' = oracleCalls + 1
    /\ sinceSleep' = sinceSleep + 1
    /\ UNCHANGED <<items, idx, it, candidates, cr, enriched, feed, exc, searchCalls,
                   lookups, sanVars>>

\* openai_same_article, lines 111-114: the call raises; nothing catches it
OracleRaises ==
    /\ pc = "oracle"
    /\ pc' = "raised" /\ exc' = "OracleError"
    /\ oracleCalls' = oracleCalls + 1
    /\ sinceSleep' = sinceSleep + 1
    /\ UNCHANGED <<items, idx, it, doi, candidates, k, cr, enriched, feed, searchCalls,
                   lookups, answer, returned, sanVars>>

\* main, line 252: the sleep after recover_doi returned
SleepAfterRecover ==
    /\ pc = "recovered"
    /\ sinceSleep' = 0
    /\ candidates' = <<>> /\ k' = 0 /\ answer' = <<>> /\ returned' = 0
    /\ pc' = "lookup"
    /\ UNCHANGED <<items, idx, it, doi, cr, enriched, feed, exc, searchCalls, oracleCalls,
                   lookups, sanVars>>

\* main, lines 254-257: doi_display is set and the registry is asked
LookupRegistry ==
    /\ pc = "lookup"
    /\ it' = SetDoiDisplay(it, doi)
    /\ IF doi # <<>>
       THEN /\ cr' \in LookupAnswers
            /\ lookups' = Append(lookups, doi)
            /\ sinceSleep' = sinceSleep + 1
       ELSE /\ cr' = <<>>
            /\ UNCHANGED <<lookups, sinceSleep>>
    /\ pc' = IF cr' # <<>> THEN "merge" ELSE "sanitize"
    /\ UNCHANGED <<items, idx, doi, candidates, k, enriched, feed, exc, searchCalls,
                   oracleCalls, answer, returned, sanVars>>

\* main, lines 258-279: the sleep and the merge of the registry answer
SleepAndMerge ==
    /\ pc = "merge"
    /\ sinceSleep' = 0
    /\ LET m == Merge(it, cr[1], doi)
       IN /\ it' = m.rec
          /\ IF m.raised
             THEN pc' = "raised" /\ exc' = "ValueError"
             ELSE pc' = "sanitize" /\ exc' = exc
    /\ UNCHANGED <<items, idx, doi, candidates, k, cr, enriched, feed, searchCalls,
                   oracleCalls, lookups, answer, returned, sanVars>>

\* main, lines 281-284: the abstract is sanitized and the record appended
SanitizeAndAppend ==
    /\ pc = "sanitize"
    /\ it' = SanitizeAbstract(it)
    /\ enriched' = Append(enriched, SanitizeAbstract(it))
    /\ idx' = idx + 1
    /\ pc' = "loop"
    /\ UNCHANGED <<items, doi, candidates, k, cr, feed, exc, sinceSleep, searchCalls,
                   oracleCalls, lookups, answer, returned, sanVars>>

\* main, line 286: the output list is handed to build_rss
BuildRss ==
    /\ pc = "loop" /\ idx > Len(items)
    /\ feed' = enriched
    /\ pc' = "done"
    /\ UNCHANGED <<items, idx, it, doi, candidates, k, cr, enriched, exc, sinceSleep,
                   searchCalls, oracleCalls, lookups, answer, returned, sanVars>>

Next ==
    \/ StartRecord
    \/ CrossrefSearch
    \/ OracleAnswers
    \/ OracleRaises
    \/ SleepAfterRecover
    \/ LookupRegistry
    \/ SleepAndMerge
    \/ SanitizeAndAppend
    \/ BuildRss

Spec == Init /\ [][Next]_vars

\* ------------------------------------------------------- strip_xml_tags

\* strip_xml_tags about to be called on any input
InitSanitize ==
    /\ sanIn \in SanInputs
    /\ sanOut = <<>>
    /\ sanPc = "call"
    /\ items = <<>> /\ pc = "off" /\ LoopIdle

\* strip_xml_tags returns
Sanitize ==
    /\ sanPc = "call"
    /\ sanOut' = strip_xml_tags(sanIn)
    /\ sanPc' = "returned"
    /\ UNCHANGED <<sanIn, loopVars>>

NextSanitize == Sanitize

SpecSanitize == InitSanitize /\ [][NextSanitize]_vars

\* ======================================================== properties

\* The record the loop started last: idx while it is being processed, idx - 1
\* once it was appended; 0 before the first.
LastStarted == IF pc \in {"loop", "done"} THEN idx - 1 ELSE idx

\* The fields the merge may fill, abstract aside.
OverwriteFree(in, out) ==
    /\ in.journal # <<>> => out.journal = in.journal
    /\ in.authors # <<>> => out.authors = in.authors
    /\ in.link # <<>> => out.link = in.link
    /\ in.pubDate # <<>> => out.pubDate = in.pubDate
    /\ in.doi # <<>> => out.doi = in.doi

\* C1: no-overwrite. For every record the loop has appended and each of journal,
\* authors, link, publication date and identifier, a non-empty input value is
\* the output value, whatever the registry answered.
C1_NoOverwrite ==
    \A i \in 1..Len(enriched) : OverwriteFree(items[i], enriched[i])

\* The candidates whose normalized title is the record's normalized title.
ExactCandidates ==
    {i \in 1..Len(candidates) :
        norm_title(CandTitle(candidates[i])) = norm_title(it.title)}

\* C2: tiered recovery precedence. Whenever the title search has answered
\* with a list that holds a candidate of the record's normalized title,
\* recover_doi has returned at once, with the DOI of the first such candidate
\* in list order, and no oracle call was made for the record.
C2_ExactTitleFirst ==
    (candidates # <<>> /\ ExactCandidates # {}) =>
        /\ pc = "recovered"
        /\ oracleCalls = 0
        /\ doi = candidates[FirstIndex(ExactCandidates)].DOI

\* C2 happens: the exact candidate comes second, after one that matches only
\* through the oracle, and its DOI is returned without an oracle call.
C2_Witness ==
    /\ pc = "recovered"
    /\ Len(candidates) = 2
    /\ ExactCandidates = {2}
    /\ MatchWithoutOracle(it, <<candidates[1]>>).index = 0
    /\ doi = candidates[2].DOI /\ doi # <<>>
    /\ oracleCalls = 0

\* C3: no exception escapes the reconciliation of a record: the run is never
\* ended by one, and once the loop is over every input record was appended.
C3_NoExceptionEscapes ==
    /\ pc # "raised"
    /\ exc = "none"
    /\ pc = "done" => Len(enriched) = Len(items)

\* C4: for every output record, doi_display is "DOI not found" if and only if
\* the record's doi is empty.
C4_DisplayIffNoDoi ==
    \A i \in 1..Len(enriched) :
        (enriched[i].doi_display = DOI_NOT_FOUND) <=> (enriched[i].doi = <<>>)

\* C5: recovery gating. The title search and the oracle are called for a
\* record only when its trimmed DOI is empty and allow_doi_lookup is true; a
\* record that arrives with a DOI keeps exactly that DOI in the output, and
\* every registry lookup made for it asks for that DOI (trimmed).
C5_RecoveryGated ==
    /\ (LastStarted > 0 /\ (searchCalls > 0 \/ oracleCalls > 0
                             \/ pc \in {"search", "oracle", "recovered"})) =>
           /\ Strip(items[LastStarted].doi) = <<>>
           /\ items[LastStarted].allow_doi_lookup
    /\ \A i \in 1..Len(enriched) :
           Strip(items[i].doi) # <<>> => enriched[i].doi = items[i].doi
    /\ (LastStarted > 0 /\ Strip(items[LastStarted].doi) # <<>>) =>
           \A j \in 1..Len(lookups) : lookups[j] = Strip(items[LastStarted].doi)

\* C5 happens: a record with a DOI and allow_doi_lookup true was appended with
\* its DOI unchanged, after one lookup of that DOI and no search.
C5_Witness ==
    /\ pc = "loop" /\ idx > 1
    /\ items[idx - 1].doi = <<" ", "x">>
    /\ items[idx - 1].allow_doi_lookup
    /\ enriched[idx - 1].doi = <<" ", "x">>
    /\ lookups = << <<"x">> >>
    /\ searchCalls = 0 /\ oracleCalls = 0

\* Two records that the deduplication must not both keep.
Duplicates(a, b) ==
    \/ a.doi # <<>> /\ a.doi = b.doi
    \/ a.link # <<>> /\ a.link = b.link
    \/ norm_title(a.title) # <<>> /\ norm_title(a.title) = norm_title(b.title)

\* C6: deduplication. Once the whole list is processed, no two records handed
\* to the feed builder share a non-empty identifier, link or normalized title.
C6_NoDuplicatesInFeed ==
    pc = "done" =>
        \A i, j \in 1..Len(feed) : i < j => ~Duplicates(feed[i], feed[j])

\* C7: pacing. No external call is made while an earlier one has not been
\* followed by a sleep: at most one call stands since the last sleep.
C7_PacedCalls == sinceSleep <= 1

\* ---------------------------------------------------------- sanitizer

\* Position p of s lies in a markup tag: between a '<' and the first '>' after
\* it, with something in between.
InTag(s, p) ==
    \E i \in 1..p, j \in p..Len(s) :
        /\ s[i] = "<" /\ s[j] = ">" /\ j >= i + 2
        /\ \A q \in (i + 1)..(j - 1) : s[q] # ">"

HasTag(s) == \E p \in 1..Len(s) : InTag(s, p)

\* The characters of s at the positions of K, in order.
RECURSIVE CharsAt(_, _)
CharsAt(s, K) ==
    IF K = {} THEN <<>>
    ELSE LET p == CHOOSE p \in K : \A q \in K : p <= q
         IN <<s[p]>> \o CharsAt(s, K \ {p})

NonSpace(s) == CharsAt(s, {p \in 1..Len(s) : ~IsSpace(s[p])})

\* The non-whitespace characters of s outside markup tags, in order.
TextOutsideTags(s) ==
    CharsAt(s, {p \in 1..Len(s) : ~IsSpace(s[p]) /\ ~InTag(s, p)})

\* C8 as stated: the result holds no tag, and its non-whitespace characters
\* are exactly the input's characters outside markup tags, in order; the
\* example abstract becomes "Background: Tumor growth.".
C8_SanitizePreservesText ==
    sanPc = "returned" =>
        /\ ~HasTag(sanOut)
        /\ NonSpace(sanOut) = TextOutsideTags(sanIn)
        /\ sanIn = ExampleAbstract => sanOut = ExampleSanitized

\* s with every character inside a markup tag turned into a space
TagsBlanked(s) == [p \in 1..Len(s) |-> IF InTag(s, p) THEN " " ELSE s[p]]

\* b[i..e] reads jats:NAME or Jats:NAME between two word boundaries.
IsJatsToken(b, i, e) ==
    /\ e >= i + 5 /\ e <= Len(b)
    /\ b[i] \in {"j", "J"}
    /\ b[i + 1] = "a" /\ b[i + 2] = "t" /\ b[i + 3] = "s" /\ b[i + 4] = ":"
    /\ \A q \in (i + 5)..e : IsWord(b[q]) \/ b[q] = "-"
    /\ (i = 1 \/ ~IsWord(b[i - 1]))
    /\ IF e = Len(b) THEN IsWord(b[e]) ELSE IsWord(b[e]) # IsWord(b[e + 1])

\* The end of the longest jats token that starts at i
LongestTokenEnd(b, i) ==
    CHOOSE e \in i..Len(b) :
        IsJatsToken(b, i, e) /\ \A f \in i..Len(b) : IsJatsToken(b, i, f) => f <= e

\* A jats token starts at i: one reads there, and no token that starts
\* earlier reaches i.
RECURSIVE TokenStartsAt(_, _)
TokenStartsAt(b, i) ==
    /\ \E e \in i..Len(b) : IsJatsToken(b, i, e)
    /\ \A h \in 1..(i - 1) :
           (\E e \in h..Len(b) : IsJatsToken(b, h, e)) =>
               (TokenStartsAt(b, h) => LongestTokenEnd(b, h) < i)

InJatsToken(b, p) ==
    \E i \in 1..p : TokenStartsAt(b, i) /\ p <= LongestTokenEnd(b, i)

\* The non-whitespace characters of s outside markup tags and outside the
\* jats tokens left once the tags are taken out, in order.
TextOutsideTagsAndTokens(s) ==
    CharsAt(s, {p \in 1..Len(s) :
                   ~IsSpace(s[p]) /\ ~InTag(s, p) /\ ~InJatsToken(TagsBlanked(s), p)})

\* C8 as amended: the result holds no tag, and its non-whitespace characters
\* are exactly the input's characters outside markup tags and outside bare
\* jats:NAME tokens, in order; the example abstract becomes
\* "Background: Tumor growth.".
C8_SanitizePreservesTextButJats ==
    sanPc = "returned" =>
        /\ ~HasTag(sanOut)
        /\ NonSpace(sanOut) = TextOutsideTagsAndTokens(sanIn)
        /\ sanIn = ExampleAbstract => sanOut = ExampleSanitized

\* C8 happens: the example abstract was sanitized.
C8_Witness ==
    /\ sanPc = "returned"
    /\ sanIn = ExampleAbstract
    /\ sanOut = ExampleSanitized

\* ------------------------------------------------------ dates, sources

\* The merge of the registry answer has run for the current record, to its
\* end or to an exception.
MergeTried ==
    \/ pc = "sanitize" /\ cr # <<>>
    \/ pc = "raised" /\ exc = "ValueError"

\* C9: publication-date synthesis. When the registry answer carries date
\* parts with a year and none, one or both of month and day, the merge writes
\* the date of that year, the given month and day, and 1 for each one absent;
\* when month and day do not make a date, it writes no date and raises nothing.
C9_DateSynthesized ==
    (MergeTried /\ cr[1].issued # <<>>) =>
        LET parts == cr[1].issued[1]
            y == parts[1]
            m == IF Len(parts) >= 2 THEN parts[2] ELSE 1
            d == IF Len(parts) >= 3 THEN parts[3] ELSE 1
        IN (Len(parts) \in 1..3 /\ y \in 1..9999) =>
               /\ exc = "none"
               /\ it.pubDate = IF ValidDate(y, m, d) THEN format_datetime(y, m, d)
                               ELSE items[idx].pubDate

\* Every non-empty value of title, journal, authors, doi and abstract of out
\* is the value of in or the value the registry answer src (empty for none)
\* gave for that field, the abstract up to sanitization.
FromSources(in, out, src) ==
    /\ out.title # <<>> => out.title = in.title
    /\ out.doi # <<>> => out.doi = in.doi
    /\ out.journal # <<>> =>
           \/ out.journal = in.journal
           \/ src # <<>> /\ out.journal \in Range(src[1].container_title)
    /\ out.authors # <<>> =>
           \/ out.authors = in.authors
           \/ src # <<>> /\ out.authors = JoinNames(src[1].author)
    /\ out.abstract # <<>> =>
           \/ out.abstract = strip_xml_tags(in.abstract)
           \/ src # <<>> /\ out.abstract = strip_xml_tags(src[1].abstract)

\* The DOI recover_doi returns is one the title search returned.
RecoveredFromSearch ==
    (pc = "recovered" /\ doi # <<>>) =>
        \E i \in 1..Len(candidates) : candidates[i].DOI = doi

\* C10 as stated: no invention. When a record has been appended, every
\* non-empty value of its title, link, journal, authors, identifier and
\* abstract is the input record's own or one the title search or the registry
\* returned for that field.
C10_NoInvention ==
    /\ RecoveredFromSearch
    /\ (pc = "loop" /\ idx > 1) =>
           LET in == items[idx - 1]
               out == enriched[idx - 1]
           IN /\ FromSources(in, out, cr)
              /\ out.link # <<>> =>
                     \/ out.link = in.link
                     \/ cr # <<>> /\ out.link = cr[1].URL

\* C10 as amended: as C10, except that the link of a record that had none,
\* when the registry answered without a URL, is "https://doi.org/" followed
\* by the DOI the registry was asked for.
C10_NoInventionButDoiLink ==
    /\ RecoveredFromSearch
    /\ (pc = "loop" /\ idx > 1) =>
           LET in == items[idx - 1]
               out == enriched[idx - 1]
           IN /\ FromSources(in, out, cr)
              /\ out.link # <<>> =>
                     \/ out.link = in.link
                     \/ cr # <<>> /\ out.link = cr[1].URL
                     \/ /\ cr # <<>> /\ cr[1].URL = <<>> /\ in.link = <<>>
                        /\ lookups # <<>>
                        /\ out.link = DoiUrlPrefix \o lookups[Len(lookups)]

\* C10 happens: a record without DOI and link was appended with a recovered
\* DOI, the registry's journal and the link built from the recovered DOI.
C10_Witness ==
    /\ pc = "loop" /\ idx > 1
    /\ items[idx - 1].doi = <<>> /\ items[idx - 1].link = <<>>
    /\ searchCalls = 1
    /\ cr # <<>> /\ cr[1].URL = <<>>
    /\ enriched[idx - 1].link = DoiUrlPrefix \o <<"y", "1">>

\* ------------------------------------------------------------------ C11

\* The candidate at position i has the record's normalized title.
SameTitle(i) == norm_title(CandTitle(candidates[i])) = norm_title(it.title)

\* One normalized title is a part of the other.
TitleWithin(i) ==
    LET wanted == norm_title(it.title)
        got == norm_title(CandTitle(candidates[i]))
    IN Contains(wanted, got) \/ Contains(got, wanted)

\* The candidate at position i and the record name one author alike, up to case.
SharesAuthor(i) ==
    \E a \in 1..Len(it.authors), b \in 1..Len(candidates[i].author) :
        /\ it.authors[a] # <<>>
        /\ Lower(it.authors[a]) = Lower(JoinName(candidates[i].author[b]))

\* The oracle's latest answer reads YES.
AnsweredYes == Upper(Strip(answer)) = YES

\* The candidate at position i passes tier A; it passes tier B.
TierA(i) == SameTitle(i)
TierB(i) == TitleWithin(i) /\ SharesAuthor(i)

\* No candidate passes tier A; none passes tier B.
NoTierA == \A i \in 1..Len(candidates) : ~TierA(i)
NoTierB == \A i \in 1..Len(candidates) : ~TierB(i)

\* C11: an identifier returned by recover_doi is that of one candidate of the
\* title search, and that candidate is the first with the record's normalized
\* title (A), or, when no candidate has that title, the first whose title
\* contains or is contained in the record's and that shares an author (B), or,
\* when no candidate passes A or B, the one the oracle has just answered YES
\* about (C). The oracle is asked only when no candidate passes A or B, about
\* the candidates in order, and goes on to the next only after an answer that
\* is not YES.
C11_TieredRecovery ==
    /\ (pc = "recovered" /\ doi # <<>>) =>
           /\ returned \in 1..Len(candidates)
           /\ doi = candidates[returned].DOI
           /\ \/ /\ oracleCalls = 0
                 /\ TierA(returned)
                 /\ \A j \in 1..(returned - 1) : ~TierA(j)
              \/ /\ oracleCalls = 0
                 /\ NoTierA
                 /\ TierB(returned)
                 /\ \A j \in 1..(returned - 1) : ~TierB(j)
              \/ /\ oracleCalls = returned
                 /\ AnsweredYes
                 /\ NoTierA /\ NoTierB
    /\ pc = "oracle" =>
           /\ NoTierA /\ NoTierB
           /\ k = oracleCalls + 1
           /\ oracleCalls > 0 => ~AnsweredYes

\* recover_doi returned the second candidate on the oracle's YES, after the
\* oracle was asked about a first candidate that matched by title containment
\* alone and did not answer YES.
C11_Witness ==
    /\ pc = "recovered" /\ doi # <<>>
    /\ returned = 2 /\ oracleCalls = 2 /\ AnsweredYes
    /\ TitleWithin(1) /\ ~SharesAuthor(1)
    /\ doi = candidates[2].DOI

\* ------------------------------------------------------------------ C12

\* The record just appended went through the loop without registry data: its
\* DOI stayed empty (none given, and recovery not allowed or without result),
\* or the registry was asked and gave nothing.
Degraded ==
    /\ pc = "loop" /\ idx > 1
    /\ \/ doi = <<>>
       \/ lookups # <<>> /\ cr = <<>>

\* The output record is the input record but for doi_display, which is set,
\* and a non-empty abstract, which is sanitized.
FrameKept(in, out) ==
    /\ out.title = in.title
    /\ out.link = in.link
    /\ out.journal = in.journal
    /\ out.authors = in.authors
    /\ out.doi = in.doi
    /\ out.pubDate = in.pubDate
    /\ out.allow_doi_lookup = in.allow_doi_lookup
    /\ out.doi_display # <<>>
    /\ out.abstract = IF in.abstract # <<>> THEN strip_xml_tags(in.abstract) ELSE <<>>

\* C12: graceful degradation frame. A record appended without registry data
\* has the title, link, journal, authors, DOI and publication date of the input
\* record; it differs only in doi_display, which is set, and in a non-empty
\* abstract, which is sanitized. No step of the loop changes the input list.
C12_DegradationFrame ==
    /\ [](Degraded => FrameKept(items[idx - 1], enriched[idx - 1]))
    /\ [][items' = items]_vars

\* A record whose registry lookup gave nothing was appended with its abstract
\* sanitized and its DOI displayed.
C12_Witness ==
    /\ Degraded
    /\ lookups # <<>> /\ cr = <<>>
    /\ items[idx - 1].abstract # <<>>
    /\ enriched[idx - 1].abstract # items[idx - 1].abstract
    /\ enriched[idx - 1].doi_display = doi

====
